---- MODULE Spec2Model ----
(***************************************************************************)
(* Model of wal-g's mongo archive loader                                   *)
(* (internal/databases/mongo/archive/loader.go): the store-backed          *)
(* Uploader, Downloader and Purger over the two folders of the object      *)
(* store (oplog archives and backups).                                     *)
(*                                                                         *)
(* Errors are sequences of message parts: Nil is the empty sequence, and   *)
(* fmt.Errorf("ctx: %w", e) puts its context in front of the cause.  An    *)
(* object key is a sequence of its name's segments, a stream and an        *)
(* object's content a sequence of bytes.                                   *)
(***************************************************************************)
EXTENDS Integers, Sequences, FiniteSets, TLC

VARIABLES
    oplogs,     \* oplogsFolder: object key -> content
    backups,    \* backupsFolder: object key -> content
    mtime,      \* backupsFolder: object key -> last modified time
    buf,        \* StorageUploader.buf of each StorageUploader instance
    su,         \* the StorageUploader instance each caller calls
    uoa,        \* UploadOplogArchive: each caller's position and locals
    ub,         \* UploadBackup: the call's position and locals
    trace,      \* the steps the current UploadBackup call has run, with their errors
    pushed,     \* backup names whose PushStream has returned success
    clock,      \* wall clock read by utility.TimeNowCrossPlatformLocal
    nextName,   \* the next backup name the store assigns
    del,        \* the batch deletes the last DeleteBackups call gave to backupsFolder
    uw,         \* DefaultFileUnwrapper: the file, the reader and the handlers invoked
    ret         \* what the last call returned; NoReturn while a call is running

vars == <<oplogs, backups, mtime, buf, su, uoa, ub, trace, pushed, clock, nextName,
          del, uw, ret>>

oplogVars  == <<oplogs, buf, su, uoa>>
backupVars == <<backups, mtime, ub, trace, pushed, clock, nextName>>
otherVars  == <<del, uw>>

-----------------------------------------------------------------------------
(* Bounds of the model *)

MaxArchives == 3    \* objects under the oplog root (timeline specification)
MaxBackups  == 2    \* UploadBackup calls
MaxParts    == 2    \* data parts of one backup
MaxPages    == 2    \* pages of a restored file

-----------------------------------------------------------------------------
(* Errors *)

Nil == << >>

\* No call has returned yet, or the last call made is still running
NoReturn == [op |-> "none", err |-> Nil]

NewError(msg) == <<msg>>

\* fmt.Errorf("msg: %w", cause)
Errorf(msg, cause) == <<msg>> \o cause

\* error.Error(): the text of the message, context first
ErrorText(e) == e

EmptyFolder == [k \in {} |-> << >>]

\* Folder.PutObject: the object replaces what the key held
PutObject(folder, key, content) ==
    [k \in DOMAIN folder \cup {key} |-> IF k = key THEN content ELSE folder[k]]

\* Folder.DeleteObjects: a batch delete; keys that are absent are ignored
DeleteObjects(folder, keys) ==
    [k \in DOMAIN folder \ keys |-> folder[k]]

\* The elements of a sequence
Elems(seq) == { seq[i] : i \in 1..Len(seq) }

RECURSIVE Orders(_)
\* The sequences that hold every element of a set once
Orders(S) ==
    IF S = {} THEN { << >> }
    ELSE UNION { { <<x>> \o rest : rest \in Orders(S \ {x}) } : x \in S }

\* The orders in which Folder.ListFolder may return the objects of a folder
ListFolder(folder) == Orders(DOMAIN folder)

ErrList == NewError("list folder failed")

\* What a call of Folder.ListFolder may return: an error, or the objects in some order
Listings(folder) ==
    {[err |-> ErrList, keys |-> << >>]}
        \cup { [err |-> Nil, keys |-> order] : order \in ListFolder(folder) }

-----------------------------------------------------------------------------
(* Compression and encryption *)

RawBytes == {"a", "b"}

Encode(b) == IF b = "a" THEN "x" ELSE "y"

\* internal.CompressAndEncrypt: a header, then the transformed bytes
CompressAndEncrypt(data) == <<"hdr">> \o [i \in 1..Len(data) |-> Encode(data[i])]

-----------------------------------------------------------------------------
(* Backups folder layout *)

SentinelSuffix == "_backup_stop_sentinel.json"

PartNames == <<"part_001", "part_002", "part_003", "part_004">>

DataKey(name, i) == <<name, PartNames[i]>>

SentinelKey(name) == <<name, SentinelSuffix>>

HasSentinel(name) == SentinelKey(name) \in DOMAIN backups

DataParts(name) == { i \in 1..Len(PartNames) : DataKey(name, i) \in DOMAIN backups }

\* No DeleteBackups call has been made
DelIdle == [names |-> << >>, failAt |-> 0, batches |-> << >>]

\* A backup stream of n parts
BackupStream(n) == [i \in 1..n |-> IF i % 2 = 1 THEN "a" ELSE "b"]

-----------------------------------------------------------------------------
(* StorageUploader.UploadBackup *)

ErrPush     == NewError("push stream failed")
ErrFinalize == NewError("finalize failed")
ErrWait     == NewError("exit status 1")
ErrSentinel == NewError("sentinel upload failed")

UBIdle == [pc |-> "idle", stream |-> << >>, name |-> 0, written |-> 0,
           timeStart |-> 0, meta |-> "", err |-> Nil]

\* Mutants of the control flow of UploadBackup
UploadBackupNext_IgnorePushErr(step, err) ==
    IF err # Nil /\ step # "PushStream" THEN "return"
    ELSE CASE step = "PushStream"     -> "Finalize"
           [] step = "Finalize"       -> "Wait"
           [] step = "Wait"           -> "UploadSentinel"
           [] step = "UploadSentinel" -> "return"

UploadBackupNext_IgnoreWaitErr(step, err) ==
    IF err # Nil /\ step # "Wait" THEN "return"
    ELSE CASE step = "PushStream"     -> "Finalize"
           [] step = "Finalize"       -> "Wait"
           [] step = "Wait"           -> "UploadSentinel"
           [] step = "UploadSentinel" -> "return"

UploadBackupNext_WaitFirst(step, err) ==
    IF err # Nil THEN "return"
    ELSE CASE step = "PushStream"     -> "Wait"
           [] step = "Wait"           -> "Finalize"
           [] step = "Finalize"       -> "UploadSentinel"
           [] step = "UploadSentinel" -> "return"

\* The step UploadBackup runs after `step` has returned err: every step's
\* error is checked before the next step, and returned as it is.
UploadBackupNext(step, err) ==
    IF err # Nil THEN "return"
    ELSE CASE step = "PushStream"     -> "Finalize"
           [] step = "Finalize"       -> "Wait"
           [] step = "Wait"           -> "UploadSentinel"
           [] step = "UploadSentinel" -> "return"

\* What the call holds once `step` has returned err
UBAfter(step, err) ==
    [ub EXCEPT !.pc = UploadBackupNext(step, err), !.err = err]

UBReturn(step, err) ==
    IF UploadBackupNext(step, err) = "return"
    THEN [op |-> "UploadBackup", err |-> err]
    ELSE ret

\* timeStart := TimeNow(); backupName, err := su.PushStream(stream) begins:
\* the store assigns the backup's name
UploadBackup_Call(n, d) ==
    /\ ub.pc \in {"idle", "return"}
    /\ clock' = clock + d
    /\ ub' = [UBIdle EXCEPT !.pc = "PushStream", !.stream = BackupStream(n),
                            !.name = nextName, !.timeStart = clock']
    /\ nextName' = nextName + 1
    /\ trace' = << >>
    /\ ret' = NoReturn
    /\ UNCHANGED <<backups, mtime, pushed, oplogVars, otherVars>>

\* PushStream writes the next data part, compressed and encrypted
PushStream_Write ==
    /\ ub.pc = "PushStream"
    /\ ub.written < Len(ub.stream)
    /\ backups' = PutObject(backups, DataKey(ub.name, ub.written + 1),
                            CompressAndEncrypt(<<ub.stream[ub.written + 1]>>))
    /\ mtime' = PutObject(mtime, DataKey(ub.name, ub.written + 1), clock)
    /\ ub' = [ub EXCEPT !.written = @ + 1]
    /\ UNCHANGED <<trace, pushed, clock, nextName, ret, oplogVars, otherVars>>

\* PushStream returns: success once every part is written, an error at any point
PushStream_Return(err) ==
    /\ ub.pc = "PushStream"
    /\ err = Nil => ub.written = Len(ub.stream)
    /\ pushed' = IF err = Nil THEN pushed \cup {ub.name} ELSE pushed
    /\ trace' = Append(trace, [step |-> "PushStream", err |-> err])
    /\ ub' = UBAfter("PushStream", err)
    /\ ret' = UBReturn("PushStream", err)
    /\ UNCHANGED <<backups, mtime, clock, nextName, oplogVars, otherVars>>

\* metaProvider.Finalize()
UploadBackup_Finalize(err) ==
    /\ ub.pc = "Finalize"
    /\ trace' = Append(trace, [step |-> "Finalize", err |-> err])
    /\ ub' = [UBAfter("Finalize", err) EXCEPT
                !.meta = IF err = Nil THEN "finalized" ELSE @]
    /\ ret' = UBReturn("Finalize", err)
    /\ UNCHANGED <<backups, mtime, pushed, clock, nextName, oplogVars, otherVars>>

\* cmd.Wait()
UploadBackup_Wait(err) ==
    /\ ub.pc = "Wait"
    /\ trace' = Append(trace, [step |-> "Wait", err |-> err])
    /\ ub' = UBAfter("Wait", err)
    /\ ret' = UBReturn("Wait", err)
    /\ UNCHANGED <<backups, mtime, pushed, clock, nextName, oplogVars, otherVars>>

\* The sentinel UploadBackup builds: BackupName is left empty
BackupSentinel(timeStart, timeFinish, meta) ==
    [BackupName |-> "", StartLocalTime |-> timeStart, FinishLocalTime |-> timeFinish,
     UserData |-> "userdata", MongoMeta |-> meta]

\* internal.UploadSentinel(su.UploaderProvider, backupSentinel, backupName)
UploadBackup_Sentinel(err, d) ==
    /\ ub.pc = "UploadSentinel"
    /\ clock' = clock + d
    /\ backups' = IF err = Nil
                  THEN PutObject(backups, SentinelKey(ub.name),
                                 BackupSentinel(ub.timeStart, clock', ub.meta))
                  ELSE backups
    /\ mtime' = IF err = Nil THEN PutObject(mtime, SentinelKey(ub.name), clock')
                 ELSE mtime
    /\ trace' = Append(trace, [step |-> "UploadSentinel", err |-> err])
    /\ ub' = UBAfter("UploadSentinel", err)
    /\ ret' = UBReturn("UploadSentinel", err)
    /\ UNCHANGED <<pushed, nextName, oplogVars, otherVars>>

-----------------------------------------------------------------------------
(* models.Timestamp and models.Archive *)

Timestamp(sec, inc) == [TS |-> sec, Inc |-> inc]

ZeroTS == Timestamp(0, 0)

LessTS(a, b) == a.TS < b.TS \/ (a.TS = b.TS /\ a.Inc < b.Inc)

\* models.MaxTS: the later of two timestamps
MaxTS(a, b) == IF LessTS(a, b) THEN b ELSE a

ArchiveTypeOplog == "oplog"
ArchiveTypeGap   == "gap"

\* su.Compression().FileExtension()
FileExtension == "lz4"

NoArchive == [Start |-> ZeroTS, End |-> ZeroTS, Ext |-> "", Type |-> ""]

\* models.NewArchive: an archive covers [Start, End) with Start <= End
NewArchive(start, end, ext, type) ==
    IF type \notin {ArchiveTypeOplog, ArchiveTypeGap}
    THEN [arch |-> NoArchive, err |-> NewError("unknown archive type")]
    ELSE IF LessTS(end, start)
    THEN [arch |-> NoArchive, err |-> NewError("archive ends before it starts")]
    ELSE [arch |-> [Start |-> start, End |-> end, Ext |-> ext, Type |-> type],
          err |-> Nil]

\* models.Archive.Filename: <type>_<start.TS>.<start.Inc>_<end.TS>.<end.Inc>.<ext>
Filename(arch) ==
    <<arch.Type, arch.Start.TS, arch.Start.Inc, arch.End.TS, arch.End.Inc, arch.Ext>>

\* models.ArchFromFilename: the key must have every segment of an archive name
ArchFromFilename(name) ==
    IF /\ Len(name) = 6
       /\ name[1] \in {ArchiveTypeOplog, ArchiveTypeGap}
       /\ \A i \in 2..5 : name[i] \in Nat
       /\ name[6] # ""
    THEN [arch |-> [Start |-> Timestamp(name[2], name[3]),
                    End |-> Timestamp(name[4], name[5]),
                    Ext |-> name[6], Type |-> name[1]],
          err |-> Nil]
    ELSE [arch |-> NoArchive, err |-> NewError("can not parse archive name")]

WellFormed(key) == ArchFromFilename(key).err = Nil

-----------------------------------------------------------------------------
(* StorageDownloader.LastKnownArchiveTS and ListOplogArchives *)

\* Mutant: the fold keeps the last End it saw
FoldMaxTS_Last(maxTS, arch) == arch.End

\* maxTS = models.MaxTS(maxTS, arch.End)
FoldMaxTS(maxTS, arch) == MaxTS(maxTS, arch.End)

RECURSIVE LastKnownArchiveTSFrom_FirstWins(_, _, _)
\* Mutant: maxTS is set from the first archive only
LastKnownArchiveTSFrom_FirstWins(keys, i, maxTS) ==
    IF i > Len(keys) THEN [ts |-> maxTS, err |-> Nil]
    ELSE LET r == ArchFromFilename(keys[i]) IN
         IF r.err # Nil
         THEN [ts |-> ZeroTS,
               err |-> Errorf("can not build archive since filename", r.err)]
         ELSE LastKnownArchiveTSFrom_FirstWins(keys, i + 1,
                  IF maxTS = ZeroTS THEN r.arch.End ELSE maxTS)

RECURSIVE LastKnownArchiveTSFrom_MaxSoFar(_, _, _)
\* Mutant: a key that fails to decode ends the loop with the maximum so far
LastKnownArchiveTSFrom_MaxSoFar(keys, i, maxTS) ==
    IF i > Len(keys) THEN [ts |-> maxTS, err |-> Nil]
    ELSE LET r == ArchFromFilename(keys[i]) IN
         IF r.err # Nil
         THEN [ts |-> maxTS,
               err |-> Errorf("can not build archive since filename", r.err)]
         ELSE LastKnownArchiveTSFrom_MaxSoFar(keys, i + 1, FoldMaxTS(maxTS, r.arch))

RECURSIVE LastKnownArchiveTSFrom(_, _, _)
\* The loop over the listed keys, from the i-th on
LastKnownArchiveTSFrom(keys, i, maxTS) ==
    IF i > Len(keys) THEN [ts |-> maxTS, err |-> Nil]
    ELSE LET r == ArchFromFilename(keys[i]) IN
         IF r.err # Nil
         THEN [ts |-> ZeroTS,
               err |-> Errorf("can not build archive since filename", r.err)]
         ELSE LastKnownArchiveTSFrom(keys, i + 1, FoldMaxTS(maxTS, r.arch))

\* LastKnownArchiveTS on a listing: listErr is ListFolder's error, keys its objects
LastKnownArchiveTS(listErr, keys) ==
    IF listErr # Nil
    THEN [ts |-> ZeroTS, err |-> Errorf("can not fetch keys since storage folder", listErr)]
    ELSE LastKnownArchiveTSFrom(keys, 1, ZeroTS)

RECURSIVE ListOplogArchives_PartialFrom(_, _, _)
\* Mutant: a key that fails to decode ends the loop with the archives so far
ListOplogArchives_PartialFrom(keys, i, archives) ==
    IF i > Len(keys) THEN [archives |-> archives, err |-> Nil]
    ELSE LET r == ArchFromFilename(keys[i]) IN
         IF r.err # Nil
         THEN [archives |-> archives,
               err |-> Errorf("can not convert retrieve timestamps since oplog archive Ext",
                              r.err)]
         ELSE ListOplogArchives_PartialFrom(keys, i + 1, Append(archives, r.arch))

RECURSIVE ListOplogArchivesFrom(_, _, _)
\* The loop over the listed keys, from the i-th on
ListOplogArchivesFrom(keys, i, archives) ==
    IF i > Len(keys) THEN [archives |-> archives, err |-> Nil]
    ELSE LET r == ArchFromFilename(keys[i]) IN
         IF r.err # Nil
         THEN [archives |-> << >>,
               err |-> Errorf("can not convert retrieve timestamps since oplog archive Ext",
                              r.err)]
         ELSE ListOplogArchivesFrom(keys, i + 1, Append(archives, r.arch))

\* ListOplogArchives on a listing
ListOplogArchives(listErr, keys) ==
    IF listErr # Nil
    THEN [archives |-> << >>, err |-> Errorf("can not list oplog archives folder", listErr)]
    ELSE ListOplogArchivesFrom(keys, 1, << >>)

LastKnownArchiveTS_Call ==
    /\ \E listing \in Listings(oplogs) :
          LET r == LastKnownArchiveTS(listing.err, listing.keys) IN
          ret' = [op |-> "LastKnownArchiveTS", err |-> r.err, val |-> r.ts]
    /\ UNCHANGED <<oplogVars, backupVars, otherVars>>

\* ret keeps the number of archives returned
ListOplogArchives_Call ==
    /\ \E listing \in Listings(oplogs) :
          LET r == ListOplogArchives(listing.err, listing.keys) IN
          ret' = [op |-> "ListOplogArchives", err |-> r.err, val |-> Len(r.archives)]
    /\ UNCHANGED <<oplogVars, backupVars, otherVars>>

-----------------------------------------------------------------------------
(* StorageUploader.UploadOplogArchive and UploadGapArchive *)

Callers == {1, 2}

\* The StorageUploader instances NewStorageUploader has built
Instances == {1, 2}

ErrRead   == NewError("unexpected EOF")
ErrUpload == NewError("put object failed")

\* A stream yields its data, then io.EOF (err = Nil) or a read error
Stream(data, err) == [data |-> data, err |-> err]

\* sent: the bytes given to su.Upload; overlapped: another call on the same
\* instance was running at some point of this call
UOAIdle == [pc |-> "idle", stream |-> Stream(<< >>, Nil), arch |-> NoArchive,
            wrote |-> FALSE, sent |-> << >>, overlapped |-> FALSE, err |-> Nil]

\* The other callers that are inside UploadOplogArchive on p's instance
Overlapping(p) ==
    { q \in Callers \ {p} : su[q] = su[p] /\ uoa[q].pc # "idle" }

\* su.buf.ReadFrom(internal.CompressAndEncrypt(stream, ...)): what was
\* transformed before the stream ended or failed is in the buffer
BufReadFrom(b, stream) ==
    [buf |-> b \o CompressAndEncrypt(stream.data), err |-> stream.err]

\* Mutant: the upload goes on after a failed read
AfterRead_IgnoreErr(err) == "Upload"

\* if err != nil { return err } after the read
AfterRead(err) == IF err # Nil THEN "return" ELSE "Upload"

\* Mutant: the buffer is reset on success only
DeferBufReset_OnSuccess(b, err) == IF err = Nil THEN << >> ELSE b

\* defer su.buf.Reset(): runs on every return after the read
DeferBufReset(b, err) == << >>

\* NewArchive, then the whole stream is read into the buffer
UploadOplogArchive_Call(p, stream, firstTS, lastTS) ==
    /\ uoa[p].pc = "idle"
    /\ LET na == NewArchive(firstTS, lastTS, FileExtension, ArchiveTypeOplog)
           rd == BufReadFrom(buf[su[p]], stream)
       IN IF na.err # Nil
          THEN /\ ret' = [op |-> "UploadOplogArchive",
                          err |-> Errorf("can not build archive", na.err)]
               /\ UNCHANGED <<buf, uoa>>
          ELSE /\ buf' = [buf EXCEPT ![su[p]] = rd.buf]
               /\ uoa' = [q \in Callers |->
                            IF q = p
                            THEN [pc |-> AfterRead(rd.err), stream |-> stream,
                                  arch |-> na.arch, wrote |-> FALSE, sent |-> << >>,
                                  overlapped |-> Overlapping(p) # {}, err |-> rd.err]
                            ELSE IF q \in Overlapping(p)
                            THEN [uoa[q] EXCEPT !.overlapped = TRUE]
                            ELSE uoa[q]]
               /\ ret' = NoReturn
    /\ UNCHANGED <<oplogs, su, backupVars, otherVars>>

\* su.Upload(arch.Filename(), bytes.NewReader(su.buf.Bytes()))
UploadOplogArchive_Upload(p, err) ==
    /\ uoa[p].pc = "Upload"
    /\ oplogs' = IF err = Nil
                 THEN PutObject(oplogs, Filename(uoa[p].arch), buf[su[p]])
                 ELSE oplogs
    /\ uoa' = [uoa EXCEPT ![p].pc = "return", ![p].err = err,
                          ![p].wrote = (err = Nil),
                          ![p].sent = IF err = Nil THEN buf[su[p]] ELSE << >>]
    /\ UNCHANGED <<buf, su, ret, backupVars, otherVars>>

\* The call returns: the deferred Reset runs
UploadOplogArchive_Return(p) ==
    /\ uoa[p].pc = "return"
    /\ buf' = [buf EXCEPT ![su[p]] = DeferBufReset(@, uoa[p].err)]
    /\ ret' = [op |-> "UploadOplogArchive", err |-> uoa[p].err]
    /\ uoa' = [uoa EXCEPT ![p] = UOAIdle]
    /\ UNCHANGED <<oplogs, su, backupVars, otherVars>>

\* Mutant: a nil cause is let through
GapCauseMissing_Never(archErr) == FALSE

\* if archErr == nil
GapCauseMissing(archErr) == archErr = Nil

\* Mutant: the gap is named as an oplog archive
GapArchive_AsOplog(firstTS, lastTS) ==
    NewArchive(firstTS, lastTS, FileExtension, ArchiveTypeOplog)

\* models.NewArchive(firstTS, lastTS, su.Compression().FileExtension(), models.ArchiveTypeGap)
GapArchive(firstTS, lastTS) ==
    NewArchive(firstTS, lastTS, FileExtension, ArchiveTypeGap)

\* UploaderProvider.PushStreamToDestination: the stream's bytes are stored
\* under the key as they are
PushStreamToDestination(folder, content, key) == PutObject(folder, key, content)

UploadGapArchive(archErr, firstTS, lastTS, pushErr) ==
    /\ \A p \in Callers : uoa[p].pc = "idle"
    /\ LET na == GapArchive(firstTS, lastTS) IN
       IF GapCauseMissing(archErr)
       THEN /\ ret' = [op |-> "UploadGapArchive",
                       err |-> NewError("archErr must not be nil")]
            /\ UNCHANGED oplogs
       ELSE IF na.err # Nil
       THEN /\ ret' = [op |-> "UploadGapArchive",
                       err |-> Errorf("can not build archive", na.err)]
            /\ UNCHANGED oplogs
       ELSE IF pushErr # Nil
       THEN /\ ret' = [op |-> "UploadGapArchive",
                       err |-> Errorf("error while uploading stream", pushErr)]
            /\ UNCHANGED oplogs
       ELSE /\ ret' = [op |-> "UploadGapArchive", err |-> Nil]
            /\ oplogs' = PushStreamToDestination(oplogs, ErrorText(archErr),
                                                 Filename(na.arch))
    /\ UNCHANGED <<buf, su, uoa, backupVars, otherVars>>

-----------------------------------------------------------------------------
(* DiscardUploader *)

\* The stream UploadOplogArchive gives to readerFrom: compressed and
\* encrypted if the uploader has a compressor
DiscardReader(d, stream) ==
    IF d.compressor THEN Stream(CompressAndEncrypt(stream.data), stream.err) ELSE stream

\* d.readerFrom.ReadFrom(archReader), if the uploader has a readerFrom: what
\* it read and its error
DiscardReadFrom(d, reader) ==
    IF d.readerFrom THEN [read |-> reader.data, err |-> reader.err]
    ELSE [read |-> << >>, err |-> Nil]

\* DiscardUploader.UploadOplogArchive: the uploader holds no folder
DiscardUploadOplogArchive(d, stream, firstTS, lastTS) ==
    /\ LET r == DiscardReadFrom(d, DiscardReader(d, stream)) IN
       ret' = [op |-> "DiscardUploader.UploadOplogArchive", err |-> r.err, read |-> r.read]
    /\ UNCHANGED <<oplogVars, backupVars, otherVars>>

DiscardGapResult_NilCauseFails(err) ==
    IF err = Nil THEN NewError("archErr must not be nil") ELSE Nil

\* return nil
DiscardGapResult(err) == Nil

\* DiscardUploader.UploadGapArchive; ret keeps the cause it was given
DiscardUploadGapArchive(err, firstTS, lastTS) ==
    /\ ret' = [op |-> "DiscardUploader.UploadGapArchive", err |-> DiscardGapResult(err),
               cause |-> err]
    /\ UNCHANGED <<oplogVars, backupVars, otherVars>>

\* A call that ended in a panic has returned nothing
Panic(op, msg) == [op |-> op, err |-> Nil, panic |-> msg]

Panicked(r) == "panic" \in DOMAIN r

\* DiscardUploader.UploadBackup: panic("implement me")
DiscardUploadBackup(stream) ==
    /\ ret' = Panic("DiscardUploader.UploadBackup", "implement me")
    /\ UNCHANGED <<oplogVars, backupVars, otherVars>>

-----------------------------------------------------------------------------
(* StoragePurger.DeleteOplogArchives *)

ErrDelete == NewError("delete objects failed")

\* The keys of the given archives, deleted in one batch
DeleteOplogArchives(archives, err) ==
    /\ LET oplogKeys == { Filename(arch) : arch \in archives } IN
       oplogs' = IF err = Nil THEN DeleteObjects(oplogs, oplogKeys) ELSE oplogs
    /\ ret' = [op |-> "DeleteOplogArchives", err |-> err]
    /\ UNCHANGED <<buf, su, uoa, backupVars, otherVars>>

-----------------------------------------------------------------------------
(* StorageDownloader: BackupMeta, LoadBackups, ListBackupNames *)

ErrFetch == NewError("fetch object failed")
ErrNotFound == NewError("object not found")

\* Backup{}
ZeroBackup == [BackupName |-> "", StartLocalTime |-> 0, FinishLocalTime |-> 0,
               UserData |-> "", MongoMeta |-> ""]

\* internal.FetchStreamSentinel(backup, &sentinel): the sentinel object of the
\* backup, decoded; fetchErr is the error of the store, if any
FetchStreamSentinel(folder, name, fetchErr) ==
    IF fetchErr # Nil THEN [sentinel |-> ZeroBackup, err |-> fetchErr]
    ELSE IF SentinelKey(name) \notin DOMAIN folder
    THEN [sentinel |-> ZeroBackup, err |-> ErrNotFound]
    ELSE [sentinel |-> folder[SentinelKey(name)], err |-> Nil]

BackupMeta(folder, name, fetchErr) ==
    LET f == FetchStreamSentinel(folder, name, fetchErr) IN
    IF f.err # Nil
    THEN [backup |-> ZeroBackup, err |-> Errorf("can not fetch stream sentinel", f.err)]
    ELSE [backup |-> IF f.sentinel.BackupName = ""
                     THEN [f.sentinel EXCEPT !.BackupName = name]
                     ELSE f.sentinel,
          err |-> Nil]

\* The store's error for the fetch of a name's sentinel
FetchErrOf(name, fetchErrs) == IF name \in fetchErrs THEN ErrFetch ELSE Nil

RECURSIVE LoadBackupsFrom(_, _, _, _, _)
\* The loop over the names from the i-th on; calls counts the BackupMeta calls made
LoadBackupsFrom(folder, names, i, acc, fetchErrs) ==
    IF i > Len(names) THEN [backups |-> acc, err |-> Nil, calls |-> Len(names)]
    ELSE LET r == BackupMeta(folder, names[i], FetchErrOf(names[i], fetchErrs)) IN
         IF r.err # Nil THEN [backups |-> << >>, err |-> r.err, calls |-> i]
         ELSE LoadBackupsFrom(folder, names, i + 1, Append(acc, r.backup), fetchErrs)

\* sort.Slice(x, less), less given as the set of pairs <<a, b>> with a less
\* than b: not stable, so every order of x in which no element is less than
\* one before it may come out
SortSlice(x, less) ==
    { [i \in 1..Len(x) |-> x[order[i]]] : order \in
        { o \in Orders(1..Len(x)) :
            \A i \in 1..Len(x), j \in 1..Len(x) :
                i < j => <<x[o[j]], x[o[i]]>> \notin less } }

FinishedAfter_Before(a, b) == a.FinishLocalTime < b.FinishLocalTime

\* backups[i].FinishLocalTime.After(backups[j].FinishLocalTime)
FinishedAfter(a, b) == a.FinishLocalTime > b.FinishLocalTime

\* LoadBackups(names): the slices it may return, its error, the BackupMeta calls made
LoadBackups(folder, names, fetchErrs) ==
    LET r == LoadBackupsFrom(folder, names, 1, << >>, fetchErrs) IN
    IF r.err # Nil THEN [outs |-> {<< >>}, err |-> r.err, calls |-> r.calls]
    ELSE [outs |-> SortSlice(r.backups,
                             { pair \in Elems(r.backups) \X Elems(r.backups) :
                                 FinishedAfter(pair[1], pair[2]) }),
          err |-> Nil, calls |-> r.calls]

LoadBackups_Call(names, fetchErrs) ==
    /\ LET r == LoadBackups(backups, names, fetchErrs) IN
       \E out \in r.outs : ret' = [op |-> "LoadBackups", err |-> r.err, val |-> out]
    /\ UNCHANGED <<oplogVars, backupVars, otherVars>>

\* What backupsFolder.ListFolder() lists: the objects directly under the
\* root, not the data parts in the backups' own folders
RootKeys(folder) ==
    { k \in DOMAIN folder : \A i \in 1..Len(PartNames) : k[2] # PartNames[i] }

\* The listings of the root: each object with its GetName and GetLastModified
RootListings(folder, times) ==
    {[err |-> ErrList, objects |-> << >>]}
        \cup { [err |-> Nil,
                objects |-> [i \in 1..Len(order) |->
                               [name |-> order[i], mtime |-> times[order[i]]]]] :
                order \in Orders(RootKeys(folder)) }

HasSentinelSuffix_Any(key) == TRUE

\* strings.HasSuffix(key, utility.SentinelSuffix)
HasSentinelSuffix(key) == key[Len(key)] = SentinelSuffix

\* utility.StripBackupName(key): the key without the suffix
StripBackupName(key) == key[1]

\* utility.StripWalFileName(key): these keys embed no log file name
StripWalFileName(key) == ""

RECURSIVE ListBackupNamesFrom(_, _, _)
\* The loop over the listed objects, from the i-th on
ListBackupNamesFrom(objects, i, sortTimes) ==
    IF i > Len(objects) THEN sortTimes
    ELSE LET key == objects[i].name IN
         IF ~HasSentinelSuffix(key)
         THEN ListBackupNamesFrom(objects, i + 1, sortTimes)
         ELSE ListBackupNamesFrom(objects, i + 1,
                  Append(sortTimes, [BackupName |-> StripBackupName(key),
                                     Time |-> objects[i].mtime,
                                     WalFileName |-> StripWalFileName(key)]))

\* sortTimes[i].Time.After(sortTimes[j].Time)
TimeAfter(a, b) == a.Time > b.Time

\* ListBackupNames on a listing: the slices it may return and its error
ListBackupNames(listing) ==
    IF listing.err # Nil THEN [outs |-> {<< >>}, err |-> listing.err]
    ELSE LET sortTimes == ListBackupNamesFrom(listing.objects, 1, << >>) IN
         [outs |-> SortSlice(sortTimes,
                             { pair \in Elems(sortTimes) \X Elems(sortTimes) :
                                 TimeAfter(pair[1], pair[2]) }),
          err |-> Nil]

ListBackupNames_Call ==
    /\ \E listing \in RootListings(backups, mtime) :
          LET r == ListBackupNames(listing) IN
          \E out \in r.outs : ret' = [op |-> "ListBackupNames", err |-> r.err, val |-> out]
    /\ UNCHANGED <<oplogVars, backupVars, otherVars>>

\* Another writer of the store puts an object under the backups root
ForeignBackupPut(key) ==
    /\ backups' = PutObject(backups, key, <<"x">>)
    /\ mtime' = PutObject(mtime, key, clock)
    /\ UNCHANGED <<ub, trace, pushed, clock, nextName, ret, oplogVars, otherVars>>

-----------------------------------------------------------------------------
(* DefaultFileUnwrapper: UnwrapNewFile, UnwrapExistingFile *)

\* A file on disk and a restore stream are sequences of pages.  In a file
\* NoPage is a page missing from the image, in a stream a page the stream
\* does not carry.
NoPage == ""
ZeroPage == "0"

ErrTarget == NewError("stat failed")
ErrHandler == NewError("handler failed")

\* errors.Wrapf(err, msg): nil for a nil err
Wrapf(err, msg) == IF err = Nil THEN Nil ELSE <<msg>> \o err

\* What a handler leaves: the file, the rest of the reader, its error.  A
\* handler that fails has read and written nothing.
Handled(file, reader, newFile, hErr) ==
    IF hErr # Nil THEN [file |-> file, reader |-> reader, err |-> hErr]
    ELSE [file |-> newFile, reader |-> << >>, err |-> Nil]

\* CreateFileFromIncrement: the full file, pages the increment lacks zero-filled
CreateFileFromIncrement(reader, file, hErr) ==
    Handled(file, reader,
            [i \in 1..Len(reader) |-> IF reader[i] = NoPage THEN ZeroPage ELSE reader[i]],
            hErr)

\* writeLocalFile: the stream, verbatim
writeLocalFile(reader, file, hErr) == Handled(file, reader, reader, hErr)

\* WritePagesFromIncrement: the pages of the increment over the file's
WritePagesFromIncrement(reader, file, hErr) ==
    Handled(file, reader,
            [i \in 1..Len(file) |-> IF reader[i] # NoPage THEN reader[i] ELSE file[i]],
            hErr)

\* RestoreMissingPages: the stream's pages where the file has none
RestoreMissingPages(reader, file, hErr) ==
    Handled(file, reader,
            [i \in 1..Len(file) |-> IF file[i] = NoPage THEN reader[i] ELSE file[i]],
            hErr)

\* The outcome of an unwrap call that invoked the handler named
Invoked(handler, h, err) ==
    [handlers |-> <<handler>>, file |-> h.file, reader |-> h.reader, err |-> err]

\* The outcome of an unwrap call that returned before any handler
NotInvoked(reader, file, err) ==
    [handlers |-> << >>, file |-> file, reader |-> reader, err |-> err]

\* UnwrapNewFile; tgtErr is the error of NewReadWriterAtFrom, hErr the handler's
UnwrapNewFile(options, reader, file, tgtErr, hErr) ==
    IF options.isIncremented
    THEN IF tgtErr # Nil THEN NotInvoked(reader, file, tgtErr)
         ELSE LET h == CreateFileFromIncrement(reader, file, hErr) IN
              Invoked("CreateFileFromIncrement", h,
                      Wrapf(h.err, "Interpret: failed to create file from increment"))
    ELSE LET h == writeLocalFile(reader, file, hErr) IN
         Invoked("writeLocalFile", h, h.err)

UnwrapExistingFile_PageFirst(options, reader, file, tgtErr, hErr) ==
    IF tgtErr # Nil THEN NotInvoked(reader, file, tgtErr)
    ELSE IF options.isPageFile
    THEN LET h == RestoreMissingPages(reader, file, hErr) IN
         Invoked("RestoreMissingPages", h,
                 Wrapf(h.err, "Interpret: failed to restore pages for file"))
    ELSE IF options.isIncremented
    THEN LET h == WritePagesFromIncrement(reader, file, hErr) IN
         Invoked("WritePagesFromIncrement", h,
                 Wrapf(h.err, "Interpret: failed to write increment to file"))
    ELSE NotInvoked(reader, file, Nil)

\* UnwrapExistingFile: NewReadWriterAtFrom comes first, whatever the options
UnwrapExistingFile(options, reader, file, tgtErr, hErr) ==
    IF tgtErr # Nil THEN NotInvoked(reader, file, tgtErr)
    ELSE IF options.isIncremented
    THEN LET h == WritePagesFromIncrement(reader, file, hErr) IN
         Invoked("WritePagesFromIncrement", h,
                 Wrapf(h.err, "Interpret: failed to write increment to file"))
    ELSE IF options.isPageFile
    THEN LET h == RestoreMissingPages(reader, file, hErr) IN
         Invoked("RestoreMissingPages", h,
                 Wrapf(h.err, "Interpret: failed to restore pages for file"))
    ELSE NotInvoked(reader, file, Nil)

\* No file has been given to the unwrapper
UWIdle == [op |-> "none", options |-> [isIncremented |-> FALSE, isPageFile |-> FALSE],
           stream |-> << >>, before |-> << >>, tgtErr |-> Nil,
           handlers |-> << >>, file |-> << >>, reader |-> << >>, err |-> Nil]

\* uw keeps the call's inputs next to what it left
Unwrapped(op, options, stream, before, tgtErr, r) ==
    [op |-> op, options |-> options, stream |-> stream, before |-> before,
     tgtErr |-> tgtErr, handlers |-> r.handlers, file |-> r.file,
     reader |-> r.reader, err |-> r.err]

\* The file was not on disk: it was created empty for the call
UnwrapNewFile_Call(options, stream, tgtErr, hErr) ==
    /\ LET r == UnwrapNewFile(options, stream, << >>, tgtErr, hErr) IN
       /\ uw' = Unwrapped("UnwrapNewFile", options, stream, << >>, tgtErr, r)
       /\ ret' = [op |-> "UnwrapNewFile", err |-> r.err]
    /\ UNCHANGED <<del, oplogVars, backupVars>>

UnwrapExistingFile_Call(options, stream, file, tgtErr, hErr) ==
    /\ LET r == UnwrapExistingFile(options, stream, file, tgtErr, hErr) IN
       /\ uw' = Unwrapped("UnwrapExistingFile", options, stream, file, tgtErr, r)
       /\ ret' = [op |-> "UnwrapExistingFile", err |-> r.err]
    /\ UNCHANGED <<del, oplogVars, backupVars>>

-----------------------------------------------------------------------------
(* StoragePurger.DeleteBackups *)

ErrTarNames == NewError("list tar partitions failed")

\* Backup.GetTarNames(): the keys of the backup's data parts, as listed
GetTarNames(folder, name) ==
    LET Listed(key) == key \in DOMAIN folder
    IN SelectSeq([i \in 1..Len(PartNames) |-> DataKey(name, i)], Listed)

\* Backup.GetStopSentinelPath()
GetStopSentinelPath(name) == SentinelKey(name)

BackupKeys_DataOnly(folder, name) == GetTarNames(folder, name)

\* What one round of the loop appends to keys: dataKeys, then the sentinel path
BackupKeys(folder, name) ==
    GetTarNames(folder, name) \o <<GetStopSentinelPath(name)>>

RECURSIVE DeleteBackupsKeysFrom_SkipErr(_, _, _, _, _)
DeleteBackupsKeysFrom_SkipErr(folder, names, i, keys, failAt) ==
    IF i > Len(names) THEN [keys |-> keys, err |-> Nil]
    ELSE IF i = failAt
    THEN DeleteBackupsKeysFrom_SkipErr(folder, names, i + 1, keys, failAt)
    ELSE DeleteBackupsKeysFrom_SkipErr(folder, names, i + 1,
                                       keys \o BackupKeys(folder, names[i]), failAt)

RECURSIVE DeleteBackupsKeysFrom(_, _, _, _, _)
\* The loop over the backups from the i-th on; GetTarNames of the failAt-th
\* backup fails, and the loop returns that error
DeleteBackupsKeysFrom(folder, names, i, keys, failAt) ==
    IF i > Len(names) THEN [keys |-> keys, err |-> Nil]
    ELSE IF i = failAt THEN [keys |-> keys, err |-> ErrTarNames]
    ELSE DeleteBackupsKeysFrom(folder, names, i + 1,
                               keys \o BackupKeys(folder, names[i]), failAt)

\* How many keys of the batch are gone when Folder.DeleteObjects returns:
\* all of them on success, a proper prefix when it fails part way
DeletedPrefix(keys, err) ==
    IF err = Nil THEN {Len(keys)}
    ELSE IF keys = << >> THEN {0}
    ELSE 0..(Len(keys) - 1)

\* DeleteBackups(backups); names are the BackupName fields of its argument.
\* del records the call: its argument, whether GetTarNames failed, and the
\* key set of every batch delete it issued.
DeleteBackups(names, failAt, delErr) ==
    /\ LET r == DeleteBackupsKeysFrom(backups, names, 1, << >>, failAt)
           call == [names |-> names,
                    failAt |-> IF failAt \in 1..Len(names) THEN failAt ELSE 0,
                    batches |-> << >>]
       IN IF r.err # Nil
          THEN /\ del' = call
               /\ ret' = [op |-> "DeleteBackups", err |-> r.err]
               /\ UNCHANGED <<backups, mtime>>
          ELSE \E n \in DeletedPrefix(r.keys, delErr) :
                 LET gone == { r.keys[j] : j \in 1..n } IN
                 /\ del' = [call EXCEPT !.batches = <<Elems(r.keys)>>]
                 /\ backups' = DeleteObjects(backups, gone)
                 /\ mtime' = DeleteObjects(mtime, gone)
                 /\ ret' = [op |-> "DeleteBackups", err |-> delErr]
    /\ UNCHANGED <<ub, trace, pushed, clock, nextName, uw, oplogVars>>

\* Another writer of the store puts an object under the oplog root
ForeignPut(key) ==
    /\ key \notin DOMAIN oplogs
    /\ oplogs' = PutObject(oplogs, key, <<"foreign">>)
    /\ UNCHANGED <<buf, su, uoa, ret, backupVars, otherVars>>

-----------------------------------------------------------------------------
(* Specifications *)

Init ==
    /\ oplogs = EmptyFolder
    /\ backups = EmptyFolder
    /\ mtime = EmptyFolder
    /\ buf = [i \in Instances |-> << >>]
    /\ su = [p \in Callers |-> 1]
    /\ uoa = [p \in Callers |-> UOAIdle]
    /\ ub = UBIdle
    /\ trace = << >>
    /\ pushed = {}
    /\ clock = 0
    /\ nextName = 1
    /\ del = DelIdle
    /\ uw = UWIdle
    /\ ret = NoReturn

NextBackup ==
    \/ \E n \in 1..MaxParts, d \in 0..1 : nextName <= MaxBackups /\ UploadBackup_Call(n, d)
    \/ PushStream_Write
    \/ \E err \in {Nil, ErrPush} : PushStream_Return(err)
    \/ \E err \in {Nil, ErrFinalize} : UploadBackup_Finalize(err)
    \/ \E err \in {Nil, ErrWait} : UploadBackup_Wait(err)
    \/ \E err \in {Nil, ErrSentinel}, d \in 0..1 : UploadBackup_Sentinel(err, d)

SpecBackup == Init /\ [][NextBackup]_vars

\* Inputs of the uploader specification
Streams == { Stream(d, e) : d \in {<<"a">>, <<"b", "a">>}, e \in {Nil, ErrRead} }

GapCauses == {Nil, NewError("cursor lost"), Errorf("oplog fetch", NewError("timeout"))}

UploaderTS == { Timestamp(1, 0), Timestamp(1, 1) }

PresentArchives ==
    { ArchFromFilename(k).arch : k \in { k \in DOMAIN oplogs : WellFormed(k) } }

\* Calls on one StorageUploader instance, one after the other
Serialized(p) == \A q \in Callers \ {p} : uoa[q].pc = "idle"

Next ==
    \/ \E stream \in Streams, firstTS \in UploaderTS, lastTS \in UploaderTS :
          Serialized(1) /\ UploadOplogArchive_Call(1, stream, firstTS, lastTS)
    \/ \E err \in {Nil, ErrUpload} : UploadOplogArchive_Upload(1, err)
    \/ UploadOplogArchive_Return(1)
    \/ \E archErr \in GapCauses, firstTS \in UploaderTS, lastTS \in UploaderTS,
          pushErr \in {Nil, ErrUpload} :
          UploadGapArchive(archErr, firstTS, lastTS, pushErr)
    \/ \E archives \in SUBSET PresentArchives, err \in {Nil, ErrDelete} :
          /\ \A p \in Callers : uoa[p].pc = "idle"
          /\ archives # {}
          /\ DeleteOplogArchives(archives, err)

Spec == Init /\ [][Next]_vars

\* Two callers inside UploadOplogArchive at once, on one StorageUploader
\* instance or each on its own
InitConcurrent ==
    /\ oplogs = EmptyFolder
    /\ backups = EmptyFolder
    /\ mtime = EmptyFolder
    /\ buf = [i \in Instances |-> << >>]
    /\ su \in { [p \in Callers |-> 1], [p \in Callers |-> p] }
    /\ uoa = [p \in Callers |-> UOAIdle]
    /\ ub = UBIdle
    /\ trace = << >>
    /\ pushed = {}
    /\ clock = 0
    /\ nextName = 1
    /\ del = DelIdle
    /\ uw = UWIdle
    /\ ret = NoReturn

NextConcurrent ==
    \/ \E p \in Callers, stream \in Streams, firstTS \in UploaderTS, lastTS \in UploaderTS :
          UploadOplogArchive_Call(p, stream, firstTS, lastTS)
    \/ \E p \in Callers, err \in {Nil, ErrUpload} : UploadOplogArchive_Upload(p, err)
    \/ \E p \in Callers : UploadOplogArchive_Return(p)

SpecConcurrent == InitConcurrent /\ [][NextConcurrent]_vars

\* Inputs of the timeline specification
TimelineTS == { Timestamp(s, i) : s \in {1, 2}, i \in {0, 1} }

\* The segments the timeline's uploads cover: [first, last) with first < last
TimelineRanges ==
    { r \in TimelineTS \X TimelineTS : LessTS(r[1], r[2]) }

TimelineStream == Stream(<<"a">>, Nil)

TimelineCause == NewError("cursor lost")

ForeignKeys == { <<"oplog", 1, 0>>, <<"junk", 1, 0, 2, 1, "lz4">>,
                 <<"gap", 2, 0, 2, 1, "br">> }

NextTimeline ==
    \/ \E r \in TimelineRanges :
          /\ Cardinality(DOMAIN oplogs) < MaxArchives
          /\ UploadOplogArchive_Call(1, TimelineStream, r[1], r[2])
    \/ UploadOplogArchive_Upload(1, Nil)
    \/ UploadOplogArchive_Return(1)
    \/ \E r \in TimelineRanges :
          /\ Cardinality(DOMAIN oplogs) < MaxArchives
          /\ UploadGapArchive(TimelineCause, r[1], r[2], Nil)
    \/ \E archives \in SUBSET PresentArchives :
          /\ uoa[1].pc = "idle"
          /\ archives # {}
          /\ DeleteOplogArchives(archives, Nil)
    \/ \E key \in ForeignKeys :
          /\ uoa[1].pc = "idle"
          /\ Cardinality(DOMAIN oplogs) < MaxArchives
          /\ ForeignPut(key)
    \/ uoa[1].pc = "idle" /\ LastKnownArchiveTS_Call
    \/ uoa[1].pc = "idle" /\ ListOplogArchives_Call

SpecTimeline == Init /\ [][NextTimeline]_vars

\* The discard uploaders NewDiscardUploader builds: with or without a
\* compressor, with or without a readerFrom
DiscardUploaders == [compressor : BOOLEAN, readerFrom : BOOLEAN]

\* A dry run beside a store that a StorageUploader has written gaps to
NextDiscard ==
    \/ \E archErr \in GapCauses, firstTS \in UploaderTS, lastTS \in UploaderTS :
          UploadGapArchive(archErr, firstTS, lastTS, Nil)
    \/ \E d \in DiscardUploaders, stream \in Streams,
          firstTS \in UploaderTS, lastTS \in UploaderTS :
          DiscardUploadOplogArchive(d, stream, firstTS, lastTS)
    \/ \E err \in GapCauses, firstTS \in UploaderTS, lastTS \in UploaderTS :
          DiscardUploadGapArchive(err, firstTS, lastTS)
    \/ \E n \in 1..MaxParts : DiscardUploadBackup(BackupStream(n))

SpecDiscard == Init /\ [][NextDiscard]_vars

\* Inputs of the restore specification
Options == [isIncremented : BOOLEAN, isPageFile : BOOLEAN]
RestoreStreams == [1..MaxPages -> {NoPage, "s"}]
FileImages == [1..MaxPages -> {NoPage, "f"}]

\* Files restored one after the other
NextUnwrap ==
    \/ \E options \in Options, stream \in RestoreStreams,
          tgtErr \in {Nil, ErrTarget}, hErr \in {Nil, ErrHandler} :
          UnwrapNewFile_Call(options, stream, tgtErr, hErr)
    \/ \E options \in Options, stream \in RestoreStreams, file \in FileImages,
          tgtErr \in {Nil, ErrTarget}, hErr \in {Nil, ErrHandler} :
          UnwrapExistingFile_Call(options, stream, file, tgtErr, hErr)

SpecUnwrap == Init /\ [][NextUnwrap]_vars

\* The lists of backups a caller may give to DeleteBackups and LoadBackups
BackupLists == UNION { Orders(S) : S \in SUBSET {1, 2} }

\* Objects under the backups root that are no sentinel: a plain file, and a
\* key that holds the sentinel suffix but does not end with it
StrayKeys == { <<0, "readme">>, <<0, SentinelSuffix, "bak">> }

\* Every list of names without repetition
NameLists == UNION { Orders(S) : S \in SUBSET (1..MaxBackups) }

\* The uploads are over: every name is assigned and the last call has returned
UploadsDone == nextName > MaxBackups /\ ub.pc = "return"

\* The uploads fill the store, then the downloader reads the catalog
NextCatalog ==
    \/ \E n \in 1..MaxParts : nextName <= MaxBackups /\ UploadBackup_Call(n, 0)
    \/ PushStream_Write
    \/ \E err \in {Nil, ErrPush} : PushStream_Return(err)
    \/ UploadBackup_Finalize(Nil)
    \/ UploadBackup_Wait(Nil)
    \/ \E d \in 0..1 : UploadBackup_Sentinel(Nil, d)
    \/ \E names \in BackupLists, fetchErrs \in {{}, {1}} :
          /\ UploadsDone
          /\ fetchErrs \subseteq Elems(names)
          /\ LoadBackups_Call(names, fetchErrs)
    \/ UploadsDone /\ ListBackupNames_Call
    \/ \E key \in StrayKeys : DOMAIN backups = {} /\ ForeignBackupPut(key)

SpecCatalog == Init /\ [][NextCatalog]_vars

\* The uploads fill the store, then the purger works on it
NextPurge ==
    \/ \E n \in 1..MaxParts : nextName <= MaxBackups /\ UploadBackup_Call(n, 0)
    \/ PushStream_Write
    \/ \E err \in {Nil, ErrPush} : PushStream_Return(err)
    \/ UploadBackup_Finalize(Nil)
    \/ UploadBackup_Wait(Nil)
    \/ UploadBackup_Sentinel(Nil, 0)
    \/ \E names \in BackupLists, failAt \in 0..2, delErr \in {Nil, ErrDelete} :
          /\ UploadsDone
          /\ DeleteBackups(names, failAt, delErr)
    \/ DOMAIN oplogs = {} /\ nextName = 1 /\ ForeignPut(<<"oplog", 1, 0>>)

SpecPurge == Init /\ [][NextPurge]_vars

-----------------------------------------------------------------------------
(* Properties of UploadBackup (SpecBackup) *)

AssignedNames == 1..(nextName - 1)

\* C1: a backup's sentinel is in the store only if that backup's PushStream
\* has returned success: never while the data is being written, never after
\* the push failed.
C1_SentinelOnlyAfterPush ==
    \A name \in AssignedNames :
        HasSentinel(name) =>
            /\ name \in pushed
            /\ DataParts(name) # {}
            /\ ~(ub.name = name /\ ub.pc = "PushStream")

\* One backup is complete (sentinel written) and a later one is an orphan:
\* data in the store, push failed, no sentinel.
C1_Witness ==
    \E done \in AssignedNames, orphan \in AssignedNames :
        /\ HasSentinel(done)
        /\ orphan \notin pushed
        /\ DataParts(orphan) # {}
        /\ ~HasSentinel(orphan)
        /\ ub.name = orphan /\ ub.pc = "return"

\* C2: once Wait has returned an error, the call has returned that very
\* error, Wait was its last step, and the backup has its data objects in the
\* store but no sentinel.
C2_WaitErrorNoSentinel ==
    \A i \in DOMAIN trace :
        (trace[i].step = "Wait" /\ trace[i].err # Nil) =>
            /\ i = Len(trace)
            /\ ub.pc = "return"
            /\ ub.err = trace[i].err
            /\ ret = [op |-> "UploadBackup", err |-> trace[i].err]
            /\ ~HasSentinel(ub.name)
            /\ DataParts(ub.name) = 1..Len(ub.stream)

C2_Witness ==
    /\ Len(trace) = 3
    /\ trace[3] = [step |-> "Wait", err |-> ErrWait]
    /\ DataParts(ub.name) = {1, 2}
    /\ ~HasSentinel(ub.name)

StepOrder == <<"PushStream", "Finalize", "Wait", "UploadSentinel">>

\* C3: the steps run in the order push, Finalize, Wait, sentinel; a step
\* runs only after every earlier step returned success, and a failed step is
\* the last one of the call.
C3_StepsInOrder ==
    /\ Len(trace) <= Len(StepOrder)
    /\ \A i \in DOMAIN trace :
          /\ trace[i].step = StepOrder[i]
          /\ i < Len(trace) => trace[i].err = Nil
    /\ (trace # << >> /\ trace[Len(trace)].err # Nil) => ub.pc = "return"
    /\ ub.pc \in {"Finalize", "Wait", "UploadSentinel"} =>
          ub.pc = StepOrder[Len(trace) + 1]
    /\ (ub.pc = "return" /\ ub.err = Nil) => Len(trace) = Len(StepOrder)
    /\ HasSentinel(ub.name) =>
          (Len(trace) = 4 /\ trace[4] = [step |-> "UploadSentinel", err |-> Nil])

\* Finalize failed: Wait and the sentinel write never happened.
C3_Witness ==
    /\ Len(trace) = 2
    /\ trace[1] = [step |-> "PushStream", err |-> Nil]
    /\ trace[2] = [step |-> "Finalize", err |-> ErrFinalize]
    /\ ub.pc = "return"
    /\ ~HasSentinel(ub.name)

-----------------------------------------------------------------------------
(* Properties of the oplog timeline (SpecTimeline) *)

AllWellFormed(folder) == \A k \in DOMAIN folder : WellFormed(k)

Ends(folder) == { ArchFromFilename(k).arch.End : k \in DOMAIN folder }

\* The latest End over the archives of a folder, the zero Timestamp if it has none
MaxEnd(folder) ==
    IF DOMAIN folder = {} THEN ZeroTS
    ELSE CHOOSE e \in Ends(folder) : \A f \in Ends(folder) : ~LessTS(e, f)

SomeListing(folder) == CHOOSE order \in ListFolder(folder) : TRUE

\* C4: on a store of well-formed keys, after every step that changes the
\* oplog root (an upload, a gap upload, a purge) LastKnownArchiveTS is the
\* latest End of the archives now present; a successful purge of archives
\* that all end before the latest End leaves it as it was.
C4_LastKnownFollowsStore ==
    [][ (oplogs' # oplogs /\ AllWellFormed(oplogs) /\ AllWellFormed(oplogs')) =>
          /\ \A after \in ListFolder(oplogs') :
                LastKnownArchiveTS(Nil, after) = [ts |-> MaxEnd(oplogs'), err |-> Nil]
          /\ \A archives \in SUBSET PresentArchives :
                ( /\ \A a \in archives : LessTS(a.End, MaxEnd(oplogs))
                  /\ DeleteOplogArchives(archives, Nil) ) =>
                \A before \in ListFolder(oplogs) :
                   LastKnownArchiveTS(Nil, before) =
                      LastKnownArchiveTS(Nil, SomeListing(oplogs'))
      ]_vars

\* The scenario [t1,t2), [t2,t3), gap [t3,t4), then the purge of [t1,t2):
\* the store holds the last two and the purge has returned success.
C4_Witness ==
    /\ ret = [op |-> "DeleteOplogArchives", err |-> Nil]
    /\ DOMAIN oplogs = { <<"oplog", 1, 1, 2, 0, "lz4">>, <<"gap", 2, 0, 2, 1, "lz4">> }
    /\ LastKnownArchiveTS(Nil, <<<<"gap", 2, 0, 2, 1, "lz4">>,
                                 <<"oplog", 1, 1, 2, 0, "lz4">>>>).ts = Timestamp(2, 1)

\* C5: for a set of well-formed keys LastKnownArchiveTS returns the same
\* value for every listing order, the latest End of the set, and the zero
\* Timestamp with no error for an empty oplog root.
C5_LastKnownOrderIndependent ==
    AllWellFormed(oplogs) =>
        /\ \A keys \in ListFolder(oplogs) :
              /\ LastKnownArchiveTS(Nil, keys).err = Nil
              /\ \A e \in Ends(oplogs) : ~LessTS(LastKnownArchiveTS(Nil, keys).ts, e)
              /\ DOMAIN oplogs # {} => LastKnownArchiveTS(Nil, keys).ts \in Ends(oplogs)
              /\ LastKnownArchiveTS(Nil, keys) = LastKnownArchiveTS(Nil, SomeListing(oplogs))
        /\ DOMAIN oplogs = {} =>
              LastKnownArchiveTS(Nil, << >>) = [ts |-> ZeroTS, err |-> Nil]

\* Three archives with three different Ends, oplog and gap, the call made.
C5_Witness ==
    /\ AllWellFormed(oplogs)
    /\ Cardinality(Ends(oplogs)) = 3
    /\ \E k \in DOMAIN oplogs : k[1] = ArchiveTypeGap
    /\ \E k \in DOMAIN oplogs : k[1] = ArchiveTypeOplog
    /\ ret.op = "LastKnownArchiveTS" /\ ret.err = Nil /\ ret.val = MaxEnd(oplogs)

\* C6: ListOplogArchives returns an error and no archive as soon as one key
\* under the oplog root fails to decode, wherever it is in the listing;
\* otherwise one Archive per listed object, in the order listed.
C6_ListAllOrNothing ==
    \A keys \in ListFolder(oplogs) :
        LET r == ListOplogArchives(Nil, keys) IN
        IF \E i \in DOMAIN keys : ~WellFormed(keys[i])
        THEN r.err # Nil /\ r.archives = << >>
        ELSE /\ r.err = Nil
             /\ Len(r.archives) = Len(keys)
             /\ \A i \in DOMAIN keys : Filename(r.archives[i]) = keys[i]

\* Two well-formed keys and a malformed one; the call returned the error.
C6_Witness ==
    /\ Cardinality({ k \in DOMAIN oplogs : WellFormed(k) }) = 2
    /\ \E k \in DOMAIN oplogs : ~WellFormed(k)
    /\ ret.op = "ListOplogArchives" /\ ret.err # Nil /\ ret.val = 0

\* The End timestamps of the keys under the oplog root that decode
DecodedEnds(folder) ==
    { ArchFromFilename(k).arch.End : k \in { x \in DOMAIN folder : WellFormed(x) } }

\* C18: when a key under the oplog root fails to decode, LastKnownArchiveTS
\* returns an error with the zero Timestamp, never the maximum End of the
\* keys that decode, wherever the malformed key is in the listing.
C18_DecodeErrorGivesZeroTS ==
    \A keys \in ListFolder(oplogs) :
        (\E i \in DOMAIN keys : ~WellFormed(keys[i])) =>
            LET r == LastKnownArchiveTS(Nil, keys) IN
            /\ r.err # Nil
            /\ r.err[1] = "can not build archive since filename"
            /\ r.ts = ZeroTS
            /\ r.ts \notin DecodedEnds(oplogs)

\* Two archives that decode and a malformed key; the call returned the
\* decode error and the zero Timestamp.
C18_Witness ==
    /\ Cardinality(DecodedEnds(oplogs)) = 2
    /\ \E k \in DOMAIN oplogs : ~WellFormed(k)
    /\ ret.op = "LastKnownArchiveTS"
    /\ ret.err # Nil /\ ret.err[1] = "can not build archive since filename"
    /\ ret.val = ZeroTS

-----------------------------------------------------------------------------
(* Properties of the StorageUploader (Spec) *)

\* C7: UploadGapArchive with a nil cause returns an error and leaves every
\* object of the store as it was, for every firstTS and lastTS.
C7_GapNilCauseNoWrite ==
    [][ \A firstTS \in UploaderTS, lastTS \in UploaderTS, pushErr \in {Nil, ErrUpload} :
          UploadGapArchive(Nil, firstTS, lastTS, pushErr) =>
             /\ oplogs' = oplogs
             /\ backups' = backups
             /\ ret'.op = "UploadGapArchive" /\ ret'.err # Nil
      ]_vars

C7_Witness ==
    /\ ret = [op |-> "UploadGapArchive", err |-> NewError("archErr must not be nil")]
    /\ DOMAIN oplogs # {}

\* C8: a successful UploadGapArchive(cause, ts1, ts2) with a non-nil cause
\* writes one object: its key decodes to a Gap archive with [Start, End) =
\* [ts1, ts2), its content is the cause's message, and every other object of
\* the store is as it was.
C8_GapUploadWritesOneGap ==
    [][ \A cause \in GapCauses \ {Nil}, ts1 \in UploaderTS, ts2 \in UploaderTS,
           pushErr \in {Nil, ErrUpload} :
          (UploadGapArchive(cause, ts1, ts2, pushErr) /\ ret'.err = Nil) =>
             \E k \in DOMAIN oplogs' :
                /\ ArchFromFilename(k).err = Nil
                /\ ArchFromFilename(k).arch.Type = ArchiveTypeGap
                /\ ArchFromFilename(k).arch.Start = ts1
                /\ ArchFromFilename(k).arch.End = ts2
                /\ oplogs'[k] = ErrorText(cause)
                /\ DOMAIN oplogs' = DOMAIN oplogs \cup {k}
                /\ \A other \in DOMAIN oplogs \ {k} : oplogs'[other] = oplogs[other]
                /\ backups' = backups
      ]_vars

\* A gap [1.0, 1.1) holding its cause's message, beside an oplog archive.
C8_Witness ==
    /\ ret = [op |-> "UploadGapArchive", err |-> Nil]
    /\ <<"gap", 1, 0, 1, 1, "lz4">> \in DOMAIN oplogs
    /\ oplogs[<<"gap", 1, 0, 1, 1, "lz4">>] = <<"oplog fetch", "timeout">>
    /\ \E k \in DOMAIN oplogs : k[1] = ArchiveTypeOplog

\* C9: whenever no UploadOplogArchive call is running the buffer is empty,
\* and what a call has uploaded under its key is the transformed bytes of
\* its own stream and nothing else.
C9_BufferEmptyBetweenCalls ==
    /\ (\A p \in Callers : uoa[p].pc = "idle") => \A i \in Instances : buf[i] = << >>
    /\ \A p \in Callers :
          uoa[p].wrote =>
             /\ Filename(uoa[p].arch) \in DOMAIN oplogs
             /\ oplogs[Filename(uoa[p].arch)] = CompressAndEncrypt(uoa[p].stream.data)

\* A call whose read failed has returned, after an earlier call's upload:
\* the bytes it had buffered are gone.
C9_Witness ==
    /\ ret = [op |-> "UploadOplogArchive", err |-> ErrRead]
    /\ \A p \in Callers : uoa[p].pc = "idle"
    /\ buf[su[1]] = << >>
    /\ \E k \in DOMAIN oplogs : k[1] = ArchiveTypeOplog

\* C10: the store write is reached only with the whole transformed stream in
\* the buffer; a call whose stream failed returns that error without having
\* written.
C10_UploadAfterFullRead ==
    \A p \in Callers :
        /\ uoa[p].pc = "Upload" =>
              /\ uoa[p].stream.err = Nil
              /\ buf[su[p]] = CompressAndEncrypt(uoa[p].stream.data)
        /\ uoa[p].wrote => uoa[p].stream.err = Nil
        /\ uoa[p].stream.err # Nil =>
              /\ uoa[p].pc = "return"
              /\ uoa[p].err = uoa[p].stream.err
              /\ ~uoa[p].wrote

\* The read failed with part of the stream buffered; nothing is under the key.
C10_Witness ==
    /\ uoa[1].pc = "return"
    /\ uoa[1].stream.err = ErrRead
    /\ buf[su[1]] # << >>
    /\ Filename(uoa[1].arch) \notin DOMAIN oplogs
    /\ DOMAIN oplogs # {}

-----------------------------------------------------------------------------
(* Properties of concurrent callers (SpecConcurrent) *)

\* The bytes p's call gave to the store are not its own transformed stream
NotOwnBytes(p) ==
    uoa[p].wrote /\ uoa[p].sent # CompressAndEncrypt(uoa[p].stream.data)

\* C11: a call uploads bytes that are not its own transformed stream only
\* when another call ran on the same StorageUploader instance during it;
\* callers with an instance each, and calls that do not overlap, upload their
\* own bytes.  The witness is the unsafe case: two calls interleaved on one
\* instance.
C11_CorruptionOnlyWhenSharedAndOverlapped ==
    \A p \in Callers :
        NotOwnBytes(p) => (uoa[p].overlapped /\ \E q \in Callers \ {p} : su[q] = su[p])

\* On one instance: caller 1's upload was cut short by caller 2's Reset (the
\* object under its key is empty), and an object of the store holds the
\* bytes of two streams.
C11_Witness ==
    /\ su[1] = su[2]
    /\ NotOwnBytes(1)
    /\ uoa[1].sent = << >>
    /\ oplogs[Filename(uoa[1].arch)] = << >>
    /\ \E k \in DOMAIN oplogs, s1 \in Streams, s2 \in Streams :
          oplogs[k] = CompressAndEncrypt(s1.data) \o CompressAndEncrypt(s2.data)

-----------------------------------------------------------------------------
(* Properties of the purger (SpecPurge) *)

\* The objects a backup owns in the store: its data parts and its sentinel key
OwnedKeys(name) == { DataKey(name, i) : i \in DataParts(name) } \cup {SentinelKey(name)}

\* A step of DeleteBackups.  In SpecPurge no other action runs while ret
\* holds the return of DeleteBackups and changes del, ret or the backups
\* folder; a DeleteBackups step that changes none of them changes nothing.
DeleteBackupsStep ==
    /\ ret'.op = "DeleteBackups"
    /\ <<del, ret, backups>>' # <<del, ret, backups>>

\* C12: a DeleteBackups call that returns success has issued exactly one
\* batch delete to the backups folder; its key set is, for every given
\* backup, all data-part keys plus the sentinel key, and no other key; the
\* objects of the other backups and all objects under the oplog root are as
\* they were.
C12_DeleteBackupsOneExactBatch ==
    [][ (DeleteBackupsStep /\ ret'.err = Nil) =>
            /\ Len(del'.batches) = 1
            /\ del'.batches[1] = UNION { OwnedKeys(name) : name \in Elems(del'.names) }
            /\ DOMAIN backups' = DOMAIN backups \ del'.batches[1]
            /\ \A key \in DOMAIN backups' : backups'[key] = backups[key]
            /\ oplogs' = oplogs ]_vars

\* One backup of two was deleted: its data parts and sentinel were in the
\* batch, the other backup's objects and an oplog object are still there.
C12_Witness ==
    /\ ret = [op |-> "DeleteBackups", err |-> Nil]
    /\ Len(del.names) = 1
    /\ \E i \in 1..Len(PartNames) : DataKey(del.names[1], i) \in del.batches[1]
    /\ SentinelKey(del.names[1]) \in del.batches[1]
    /\ \E other \in AssignedNames \ Elems(del.names) :
          HasSentinel(other) /\ DataParts(other) # {}
    /\ DOMAIN oplogs # {}

\* C19: when GetTarNames fails for a backup of the list, DeleteBackups
\* returns that error and has issued no batch delete: no object is deleted,
\* the objects of the backups before the failing one included.
C19_TarNamesErrorDeletesNothing ==
    [][ (DeleteBackupsStep /\ del'.failAt > 0) =>
            /\ ret' = [op |-> "DeleteBackups", err |-> ErrTarNames]
            /\ del'.batches = << >>
            /\ backups' = backups
            /\ oplogs' = oplogs ]_vars

\* GetTarNames failed for the second backup of the list, after the keys of
\* the first were collected; the first backup is still whole.
C19_Witness ==
    /\ ret = [op |-> "DeleteBackups", err |-> ErrTarNames]
    /\ del.failAt = 2
    /\ del.batches = << >>
    /\ HasSentinel(del.names[1])
    /\ DataParts(del.names[1]) # {}

-----------------------------------------------------------------------------
(* Properties of the catalog calls (SpecCatalog) *)

\* The positions of names whose BackupMeta fails
FailingAt(names, fetchErrs) ==
    { i \in 1..Len(names) :
        BackupMeta(backups, names[i], FetchErrOf(names[i], fetchErrs)).err # Nil }

\* C13: LoadBackups fails, with no backups returned, exactly when BackupMeta
\* fails for at least one name, and then the first failure is returned and
\* no later name is resolved; otherwise it returns one Backup per given name,
\* ordered by FinishLocalTime descending, for every order of the names.
C13_LoadBackupsAllOrNothingSorted ==
    \A names \in NameLists, fetchErrs \in SUBSET (1..MaxBackups) :
        LET r == LoadBackups(backups, names, fetchErrs)
            failing == FailingAt(names, fetchErrs)
        IN IF failing # {}
           THEN LET first == CHOOSE i \in failing : \A j \in failing : i <= j IN
                /\ r.err = BackupMeta(backups, names[first],
                                      FetchErrOf(names[first], fetchErrs)).err
                /\ r.outs = {<< >>}
                /\ r.calls = first
           ELSE /\ r.err = Nil
                /\ r.outs # {}
                /\ \A out \in r.outs :
                      /\ Len(out) = Len(names)
                      /\ \A n \in Elems(names) :
                            Cardinality({ i \in 1..Len(out) : out[i].BackupName = n }) = 1
                      /\ \A i \in 1..Len(out), j \in 1..Len(out) :
                            i < j => out[i].FinishLocalTime >= out[j].FinishLocalTime

\* LoadBackups returned two backups that finished at different times, the
\* later one first; it was given them in either order.
C13_Witness ==
    /\ ret.op = "LoadBackups" /\ ret.err = Nil
    /\ Len(ret.val) = 2
    /\ ret.val[1].FinishLocalTime > ret.val[2].FinishLocalTime
    /\ ret.val \in LoadBackups(backups, <<ret.val[2].BackupName, ret.val[1].BackupName>>,
                                {}).outs
    /\ LoadBackups(backups, <<1>>, {1}).err # Nil

\* The sentinel objects under the backups root
SentinelKeys == { k \in RootKeys(backups) : k[Len(k)] = SentinelSuffix }

\* C17: ListBackupNames returns exactly one entry per object under the
\* backups root whose key ends with the sentinel suffix and none for any
\* other object, ordered by modification time descending, for every order
\* in which the store lists the objects.
C17_ListBackupNamesSentinelsSorted ==
    \A listing \in RootListings(backups, mtime) :
        listing.err = Nil =>
            LET r == ListBackupNames(listing) IN
            /\ r.err = Nil
            /\ r.outs # {}
            /\ \A out \in r.outs :
                  /\ Len(out) = Cardinality(SentinelKeys)
                  /\ \A k \in SentinelKeys :
                        \E i \in 1..Len(out) :
                            out[i].BackupName = k[1] /\ out[i].Time = mtime[k]
                  /\ \A i \in 1..Len(out), j \in 1..Len(out) :
                        i < j => out[i].Time >= out[j].Time

\* Two sentinels written at different times and a stray object under the
\* root; the call returned the two backups, the later one first.
C17_Witness ==
    /\ ret.op = "ListBackupNames" /\ ret.err = Nil
    /\ Cardinality(SentinelKeys) = 2
    /\ RootKeys(backups) # SentinelKeys
    /\ Len(ret.val) = 2
    /\ ret.val[1].Time > ret.val[2].Time
    /\ ret.val[1].Time = mtime[SentinelKey(ret.val[1].BackupName)]

-----------------------------------------------------------------------------
(* Properties of the file restore dispatcher (SpecUnwrap) *)

\* The handling the dispatch table gives a file; "skip" is the no-op
TableRoute(existing, isIncremented, isPageFile) ==
    CASE ~existing /\ isIncremented -> "CreateFileFromIncrement"
      [] ~existing /\ ~isIncremented -> "writeLocalFile"
      [] existing /\ isIncremented -> "WritePagesFromIncrement"
      [] existing /\ ~isIncremented /\ isPageFile -> "RestoreMissingPages"
      [] existing /\ ~isIncremented /\ ~isPageFile -> "skip"

\* The route of the call uw records
RouteOfCall ==
    TableRoute(uw.op = "UnwrapExistingFile", uw.options.isIncremented, uw.options.isPageFile)

\* The call had the random-access target it needs: every call but a new
\* file of a non-incremental restore builds one first
TargetBuilt == uw.tgtErr = Nil \/ RouteOfCall = "writeLocalFile"

\* C14: the handler a call invokes is the one the table gives for (new or
\* existing, isIncremented, isPageFile) and no other: a call invokes at most
\* one handler, never one of another route, and invokes the route's handler
\* whenever its target is built; incremental goes before page-file for an
\* existing file, and isPageFile does not change what UnwrapNewFile does.
C14_DispatchTable ==
    /\ uw.op # "none" =>
          /\ Len(uw.handlers) <= 1
          /\ \A i \in 1..Len(uw.handlers) : uw.handlers[i] = RouteOfCall
          /\ (TargetBuilt /\ RouteOfCall # "skip") => uw.handlers = <<RouteOfCall>>
    /\ \A inc \in BOOLEAN, stream \in RestoreStreams,
          tgtErr \in {Nil, ErrTarget}, hErr \in {Nil, ErrHandler} :
          UnwrapNewFile([isIncremented |-> inc, isPageFile |-> TRUE],
                        stream, << >>, tgtErr, hErr)
            = UnwrapNewFile([isIncremented |-> inc, isPageFile |-> FALSE],
                            stream, << >>, tgtErr, hErr)

\* An existing page file in an incremental restore was patched from the
\* increment, not page-restored.
C14_Witness ==
    /\ uw.op = "UnwrapExistingFile"
    /\ uw.options = [isIncremented |-> TRUE, isPageFile |-> TRUE]
    /\ uw.handlers = <<"WritePagesFromIncrement">>
    /\ uw.err = Nil
    /\ uw.file # uw.before
    /\ uw.file # RestoreMissingPages(uw.stream, uw.before, Nil).file

\* C15: for an existing file that is no page file in a non-incremental
\* restore, UnwrapExistingFile is a no-op: it invokes no handler, consumes
\* nothing from the stream, leaves the file as it was and returns success.
C15_ExistingPlainFileIsNoOp ==
    (uw.op = "UnwrapExistingFile" /\ ~uw.options.isIncremented /\ ~uw.options.isPageFile) =>
        /\ uw.handlers = << >>
        /\ uw.reader = uw.stream
        /\ uw.file = uw.before
        /\ uw.err = Nil

-----------------------------------------------------------------------------
(* Properties of the DiscardUploader (SpecDiscard) *)

\* A step that leaves every object of the store as it was
NoStoreWrite == oplogs' = oplogs /\ backups' = backups /\ mtime' = mtime

\* C16: the discard uploader persists nothing and never reports a backup as
\* done: UploadGapArchive returns success for every input, a nil cause
\* included, and writes nothing; UploadOplogArchive writes no object;
\* UploadBackup never returns success, it panics on every call.
C16_DiscardUploaderPersistsNothing ==
    [][ /\ \A err \in GapCauses, firstTS \in UploaderTS, lastTS \in UploaderTS :
              DiscardUploadGapArchive(err, firstTS, lastTS) =>
                  /\ ret'.err = Nil /\ ~Panicked(ret')
                  /\ NoStoreWrite
        /\ \A d \in DiscardUploaders, stream \in Streams,
              firstTS \in UploaderTS, lastTS \in UploaderTS :
              DiscardUploadOplogArchive(d, stream, firstTS, lastTS) => NoStoreWrite
        /\ \A n \in 1..MaxParts :
              DiscardUploadBackup(BackupStream(n)) =>
                  /\ Panicked(ret') /\ ret'.panic = "implement me"
                  /\ NoStoreWrite
      ]_vars

\* The store holds objects, and a discard UploadGapArchive with a nil cause
\* has returned success.
C16_Witness ==
    /\ DOMAIN oplogs # {}
    /\ ret.op = "DiscardUploader.UploadGapArchive"
    /\ ret.cause = Nil
    /\ ret.err = Nil

====
